---- MODULE Spec2Model ----
(***************************************************************************)
(* Forced alignment of a transcript to the frames of an emission matrix,   *)
(* as implemented in force_alignment.py: trellis_algo (tokenizer and       *)
(* trellis builder), backtrack, merge_repeats.                             *)
(*                                                                         *)
(* Numbers.  Emissions are log-probabilities; the model draws them from a  *)
(* small set of integers, on which float addition and comparison are       *)
(* exact.  float("inf") and -float("inf") are the two values PInf and NInf *)
(* with the IEEE rules for + and max (XAdd, XMax); an emission is always   *)
(* finite, so inf + (-inf) never occurs.                                   *)
(* exp(x).item() is kept as the term Exp(x), a mean of scores as the term  *)
(* Mean(<<...>>).                                                          *)
(***************************************************************************)
EXTENDS Integers, Sequences, FiniteSets, TLC

\* ---------------------------------------------------------------- bounds
MaxF == 3
MaxN == 3
\* merge_words on its own: at most MaxSegs character segments
MaxSegs == 4
\* merge_repeats on its own: at most MaxPath path points
MaxPath == 3
\* format_time on its own: times below MaxHours + 1 hours
MaxHours == 1
\* convert_timing_to_ass on its own: at most MaxEntries timed words
MaxEntries == 2
\* the text splitters on their own: texts of at most MaxText characters,
\* max_chunk_size from 1 to MaxChunk
MaxText == 4
MaxChunk == 3
\* generate_subtitles: at most MaxFiles files in the voiceovers folder
MaxFiles == 2

\* the emission values of the general inputs
EVals == {-2, -1, 0}
\* the characters of the general transcripts
Chars == {"|", "A"}
\* the label vocabulary of the general inputs, index 0 first
GenLabels == <<"|", "A">>

\* the concrete scenario: F = 5, vocabulary blank=0, A=1, B=2, tokens [0,1,2]
ScenLabels == <<"|", "A", "B">>
ScenTranscript == <<"|", "A", "B">>
ScenFavoured == {-1, 0}
ScenUnfavoured == {-9, -8}
\* the label each frame of the scenario favours (frame 0: the blank)
ScenFav == [t \in 0..4 |-> IF t = 0 THEN 0 ELSE IF t \in {1, 2} THEN 1 ELSE 2]

\* ------------------------------------------------------- extended numbers
PInf == 1000000
NInf == -1000000

IsFinite(x) == x # PInf /\ x # NInf

XAdd(a, b) ==
  IF a = PInf \/ b = PInf THEN PInf
  ELSE IF a = NInf \/ b = NInf THEN NInf
  ELSE a + b

XMax(a, b) == IF a >= b THEN a ELSE b

Exp(x) == <<"exp", x>>
Mean(s) == <<"mean", s>>

\* mutant: the path is returned in walk order (no [::-1])
ReverseNot(s) == s

Reverse(s) == [i \in 1..Len(s) |-> s[Len(s) + 1 - i]]

\* ------------------------------------------------------------------ state
VARIABLES labels, ts, emission, blank_id,
          pc, err, tokens, trellis, t, j, path, i1, i2, segments, out, words,
          time_ms, stamp,
          timing_info, ass_content, ass_k, ass_file,
          cur, saved, given,
          mn, sp, gs

\* format_time and convert_timing_to_ass: their own arguments and locals
timeVars == <<time_ms, stamp>>
assVars == <<timing_info, ass_content, ass_k, ass_file>>
\* the frames of the other entry points: main (main.py), the two text
\* splitters (subtitles.py, tts.py), generate_subtitles (subtitles.py)
batch == <<mn, sp, gs>>
aside == <<timeVars, assVars, batch>>

\* two invocations on one interpreter: the one that runs, the frame of the
\* one that waits, and the arguments each was called with
sched == <<cur, saved, given>>

vars == <<labels, ts, emission, blank_id,
          pc, err, tokens, trellis, t, j, path, i1, i2, segments, out, words,
          aside, sched>>

inputs == <<labels, ts, emission, blank_id>>

num_frame == Cardinality(DOMAIN emission)
num_tokens == Len(tokens)

\* tokens[j] of the code (0-based)
Tok(jj) == tokens[jj + 1]

Point(tok, time, score) ==
  [token_index |-> tok, time_index |-> time, score |-> score]

Segment(label, start, end, score) ==
  [label |-> label, start |-> start, end |-> end, score |-> score]

\* ------------------------------------------------------------- tokenizer
\* dictionary = {c: i for i, c in enumerate(labels)}: a later duplicate wins
InDictionary(c) == \E i \in 1..Len(labels) : labels[i] = c

Dictionary(c) ==
  (CHOOSE i \in 1..Len(labels) :
     /\ labels[i] = c
     /\ \A k \in 1..Len(labels) : labels[k] = c => k <= i) - 1

TokenOf(c) == IF InDictionary(c) THEN Dictionary(c) ELSE 0

\* mutant: a character absent from the vocabulary is dropped
TokensOfSkipAbsent(transcript) ==
  LET known == SelectSeq(transcript, InDictionary)
  IN  [i \in 1..Len(known) |-> Dictionary(known[i])]

TokensOf(transcript) == [i \in 1..Len(transcript) |-> TokenOf(transcript[i])]

\* mutant: the emptiness check is missing
TokensEmptyNever(tk) == FALSE

\* mutant: the list is one list for all calls (as a default argument or a
\* module-level list would be) and still holds the tokens of the other call
LeftoverTokenList == IF saved = <<>> THEN <<>> ELSE saved.tokens

\* line 43: "tokens = []", a new list in every call
NewTokenList == <<>>

\* "if not tokens"
TokensEmpty(tk) == tk = <<>>

\* ------------------------------------------------------- trellis builder
RECURSIVE CumSum(_)
\* torch.cumsum(emission[1:, blank_id], 0)[tt - 1], tt >= 1
CumSum(tt) ==
  IF tt <= 0 THEN 0 ELSE CumSum(tt - 1) + emission[tt][blank_id]

\* first row of the slice [-num_tokens + 1 :] over num_frame rows
InfStart(nf, nt) ==
  LET s == 1 - nt IN
  IF s < 0 THEN (IF nf + s < 0 THEN 0 ELSE nf + s)
  ELSE (IF s > nf THEN nf ELSE s)

\* mutant: line 58 is missing, row 0 stays 0
InitialTrellisNoNegInf ==
  LET nf == num_frame
      nt == num_tokens
  IN  [tt \in 0..nf-1 |-> [jj \in 0..nt-1 |->
         IF jj = 0 /\ tt >= InfStart(nf, nt) THEN PInf
         ELSE IF jj = 0 /\ tt >= 1 THEN CumSum(tt) ELSE 0]]

InitialTrellis ==
  LET nf == num_frame
      nt == num_tokens
      z  == [tt \in 0..nf-1 |-> [jj \in 0..nt-1 |-> 0]]
      a  == [tt \in 0..nf-1 |-> [jj \in 0..nt-1 |->
               IF jj = 0 /\ tt >= 1 THEN CumSum(tt) ELSE z[tt][jj]]]
      b  == [tt \in 0..nf-1 |-> [jj \in 0..nt-1 |->
               IF tt = 0 /\ jj >= 1 THEN NInf ELSE a[tt][jj]]]
  IN  [tt \in 0..nf-1 |-> [jj \in 0..nt-1 |->
               IF jj = 0 /\ tt >= InfStart(nf, nt) THEN PInf ELSE b[tt][jj]]]

\* mutant: a stay consumes the emission of the token, not of the blank
StayScoreToken(tr, tt, jj) == XAdd(tr[tt][jj], emission[tt][Tok(jj)])

\* the two operands of torch.maximum for column jj of row tt + 1
StayScore(tr, tt, jj) == XAdd(tr[tt][jj], emission[tt][blank_id])
\* mutant: the advance consumes the emission of the frame it enters
ChangeScoreNextFrame(tr, tt, jj) == XAdd(tr[tt][jj - 1], emission[tt + 1][Tok(jj)])

ChangeScore(tr, tt, jj) == XAdd(tr[tt][jj - 1], emission[tt][Tok(jj)])

NextRow(tr, tt) ==
  [jj \in 0..num_tokens-1 |->
     IF jj >= 1 THEN XMax(StayScore(tr, tt, jj), ChangeScore(tr, tt, jj))
     ELSE tr[tt + 1][jj]]

\* mutant: a tie counts as a change
ChangedOrTie(changed, stayed) == changed >= stayed

\* "changed > stayed"
Changed(changed, stayed) == changed > stayed

\* ---------------------------------------------------------- merge_repeats
RECURSIVE RunEndByLabel(_, _, _)
\* mutant: points are compared by the character they stand for
RunEndByLabel(p, k0, k) ==
  IF k <= Len(p) /\ ts[p[k0].token_index + 1] = ts[p[k].token_index + 1]
  THEN RunEndByLabel(p, k0, k + 1) ELSE k

RECURSIVE RunEnd(_, _, _)
\* the inner while loop: the first i2 >= k with a different token_index
RunEnd(p, k0, k) ==
  IF k <= Len(p) /\ p[k0].token_index = p[k].token_index
  THEN RunEnd(p, k0, k + 1) ELSE k

\* mutant: the last position of the transcript counts as out of range
InRangeButLast(tok, transcript) == tok + 1 < Len(transcript)

\* line 134: "path[i1].token_index < len(transcript)"
InRange(tok, transcript) == tok < Len(transcript)

\* line 145: the warning printed for a run that is skipped
Warning(tok, n) == <<"Token index out of range", tok, n>>

\* mutant: the end is the time_index of the last point, not one past it
RunSegmentInclusiveEnd(p, transcript, a, b) ==
  Segment(transcript[p[a + 1].token_index + 1],
          p[a + 1].time_index,
          p[b].time_index,
          Mean([k \in 1..(b - a) |-> p[a + k].score]))

\* lines 135-143: the segment of the run path[a..b-1] (0-based, b exclusive)
RunSegment(p, transcript, a, b) ==
  Segment(transcript[p[a + 1].token_index + 1],
          p[a + 1].time_index,
          p[b].time_index + 1,
          Mean([k \in 1..(b - a) |-> p[a + k].score]))

\* ------------------------------------------------------------ merge_words
\* line 151: separator="|"
Separator == "|"

RECURSIVE JoinLabels(_, _, _)
\* "".join([seg.label for seg in segments[a:b]])
JoinLabels(segs, a, b) ==
  IF a >= b THEN "" ELSE segs[a + 1].label \o JoinLabels(segs, a + 1, b)

RECURSIVE TotalLength(_, _, _)
\* sum(seg.length for seg in segments[a:b])
TotalLength(segs, a, b) ==
  IF a >= b THEN 0
  ELSE (segs[a + 1].end - segs[a + 1].start) + TotalLength(segs, a + 1, b)

\* sum(seg.score * seg.length ...) / sum(seg.length ...), kept as a term
WeightedMean(segs, a, b) ==
  <<"wmean", [k \in 1..(b - a) |->
                <<segs[a + k].score, segs[a + k].end - segs[a + k].start>>]>>

\* mutant: the word starts where its last segment starts
WordSegmentLastStart(segs, a, b) ==
  Segment(JoinLabels(segs, a, b), segs[b].start, segs[b].end,
          WeightedMean(segs, a, b))

\* lines 157-160: the word of segments[a:b]
WordSegment(segs, a, b) ==
  Segment(JoinLabels(segs, a, b), segs[a + 1].start, segs[b].end,
          WeightedMean(segs, a, b))

\* ---------------------------------------------------------------- inputs
\* labels of the segments given to merge_words on its own
WordLabels == {"|", "H", "I"}
\* frames per segment given to merge_words on its own
SegLengths == {1, 2}

RECURSIVE StartOf(_, _)
\* the start frame of segment k when the segments tile the frames from 0
StartOf(lens, k) == IF k <= 1 THEN 0 ELSE StartOf(lens, k - 1) + lens[k - 1]

WordInputs ==
  UNION {
    {[k \in 1..n |->
        Segment(labs[k], StartOf(lens, k), StartOf(lens, k) + lens[k],
                <<"score", k>>)] :
       labs \in [1..n -> WordLabels], lens \in [1..n -> SegLengths]} :
    n \in 0..MaxSegs}

GenEmissions ==
  UNION {[0..(nf-1) -> [0..(Len(GenLabels)-1) -> EVals]] : nf \in 1..MaxF}

GenTranscripts == UNION {[1..n -> Chars] : n \in 0..MaxN}

ScenEmissions ==
  {[tt \in 0..4 |-> [c \in 0..2 |-> IF c = ScenFav[tt] THEN fv[tt] ELSE uv[tt]]] :
     fv \in [0..4 -> ScenFavoured], uv \in [0..4 -> ScenUnfavoured]}

\* a single invocation, nothing waits
Alone ==
  /\ cur = 1
  /\ saved = <<>>
  /\ given = <<>>

\* main, the text splitters and generate_subtitles are not running
IdleBatch ==
  /\ mn = <<>>
  /\ sp = <<>>
  /\ gs = <<>>

\* format_time and convert_timing_to_ass are not running
IdleAside ==
  /\ time_ms = 0
  /\ stamp = <<>>
  /\ timing_info = <<>>
  /\ ass_content = <<>>
  /\ ass_k = 0
  /\ ass_file = <<>>

InitGeneral ==
  /\ labels = GenLabels
  /\ ts \in GenTranscripts
  /\ emission \in GenEmissions

InitScenario ==
  /\ labels = ScenLabels
  /\ ts = ScenTranscript
  /\ emission \in ScenEmissions

Init ==
  /\ Alone
  /\ IdleBatch
  /\ InitGeneral \/ InitScenario
  /\ blank_id = 0
  /\ pc = "trellis_algo"
  /\ err = "none"
  /\ tokens = <<>>
  /\ trellis = <<>>
  /\ t = 0
  /\ j = 0
  /\ path = <<>>
  /\ i1 = 0
  /\ i2 = 0
  /\ segments = <<>>
  /\ out = <<>>
  /\ words = <<>>
  /\ IdleAside

\* --------------------------------------------------------------- actions
\* trellis_algo, lines 41-51: tokenize, reject an empty token list
Tokenize ==
  /\ pc = "trellis_algo"
  /\ tokens' = NewTokenList \o TokensOf(ts)
  /\ IF TokensEmpty(tokens')
     THEN pc' = "error" /\ err' = "ValueError"
     ELSE pc' = "init_trellis" /\ err' = err
  /\ UNCHANGED <<sched, aside, i2, out, words, inputs, trellis, t, j, path, i1, segments>>

\* trellis_algo, lines 53-59: allocate and initialise the trellis
InitTrellis ==
  /\ pc = "init_trellis"
  /\ trellis' = InitialTrellis
  /\ t' = 0
  /\ pc' = "dp"
  /\ UNCHANGED <<sched, aside, i2, out, words, inputs, err, tokens, j, path, i1, segments>>

\* trellis_algo, lines 61-65: one iteration of "for t in range(num_frame - 1)"
DPStep ==
  /\ pc = "dp"
  /\ t < num_frame - 1
  /\ trellis' = [trellis EXCEPT ![t + 1] = NextRow(trellis, t)]
  /\ t' = t + 1
  /\ UNCHANGED <<sched, aside, i2, out, words, inputs, pc, err, tokens, j, path, i1, segments>>

\* trellis_algo, line 66: the loop is over, the trellis is returned
TrellisReturn ==
  /\ pc = "dp"
  /\ ~(t < num_frame - 1)
  /\ pc' = "backtrack"
  /\ UNCHANGED <<sched, aside, i2, out, words, inputs, err, tokens, trellis, t, j, path, i1, segments>>

\* backtrack, lines 77-79
BacktrackStart ==
  /\ pc = "backtrack"
  /\ t' = num_frame - 1
  /\ j' = num_tokens - 1
  /\ path' = <<Point(j', t', Exp(emission[t'][blank_id]))>>
  /\ pc' = "bt_loop"
  /\ UNCHANGED <<sched, aside, i2, out, words, inputs, err, tokens, trellis, i1, segments>>

\* mutant: no assertion, the loop gives up and the path is returned
BacktrackGiveUp ==
  /\ pc = "bt_loop"
  /\ j > 0
  /\ ~(t > 0)
  /\ path' = Reverse(path)
  /\ i1' = 0
  /\ i2' = 0
  /\ segments' = <<>>
  /\ pc' = "merge_repeats"
  /\ UNCHANGED <<sched, aside, out, words, inputs, err, tokens, trellis, t, j>>

\* backtrack, line 82: "assert t > 0" fails
BacktrackAssertFail ==
  /\ pc = "bt_loop"
  /\ j > 0
  /\ ~(t > 0)
  /\ pc' = "error"
  /\ err' = "AssertionError"
  /\ UNCHANGED <<sched, aside, i2, out, words, inputs, tokens, trellis, t, j, path, i1, segments>>

\* backtrack, lines 80-100: one iteration of "while j > 0"
BacktrackStep ==
  /\ pc = "bt_loop"
  /\ j > 0
  /\ t > 0
  /\ LET p_stay == emission[t - 1][blank_id]
         p_change == emission[t - 1][Tok(j)]
         stayed == XAdd(trellis[t - 1][j], p_stay)
         changed == XAdd(trellis[t - 1][j - 1], p_change)
     IN /\ t' = t - 1
        /\ j' = IF Changed(changed, stayed) THEN j - 1 ELSE j
        /\ path' = Append(path,
             Point(j', t', Exp(IF Changed(changed, stayed) THEN p_change ELSE p_stay)))
  /\ UNCHANGED <<sched, aside, i2, out, words, inputs, pc, err, tokens, trellis, i1, segments>>

\* backtrack, lines 104-107: one iteration of "while t > 0" (j == 0)
BacktrackPad ==
  /\ pc = "bt_loop"
  /\ ~(j > 0)
  /\ t > 0
  /\ path' = Append(path, Point(j, t - 1, Exp(emission[t - 1][blank_id])))
  /\ t' = t - 1
  /\ UNCHANGED <<sched, aside, i2, out, words, inputs, pc, err, tokens, trellis, j, i1, segments>>

\* backtrack, line 109: return path[::-1]
BacktrackReturn ==
  /\ pc = "bt_loop"
  /\ ~(j > 0)
  /\ ~(t > 0)
  /\ path' = Reverse(path)
  /\ i1' = 0
  /\ i2' = 0
  /\ segments' = <<>>
  /\ pc' = "merge_repeats"
  /\ UNCHANGED <<sched, aside, out, words, inputs, err, tokens, trellis, t, j>>

\* mutant: the inner loop stops after one point, every point is a run
MergeRepeatsStepSplit ==
  /\ pc = "merge_repeats"
  /\ i1 < Len(path)
  /\ i2' = i1 + 1
  /\ IF InRange(path[i1 + 1].token_index, ts)
     THEN /\ segments' = Append(segments, RunSegment(path, ts, i1, i2'))
          /\ out' = out
     ELSE /\ segments' = segments
          /\ out' = Append(out, Warning(path[i1 + 1].token_index, Len(ts)))
  /\ i1' = i2'
  /\ UNCHANGED <<sched, aside, words, inputs, pc, err, tokens, trellis, t, j, path>>

\* merge_repeats, lines 131-146: one iteration of "while i1 < len(path)"
MergeRepeatsStep ==
  /\ pc = "merge_repeats"
  /\ i1 < Len(path)
  /\ i2' = RunEnd(path, i1 + 1, i2 + 1) - 1
  /\ IF InRange(path[i1 + 1].token_index, ts)
     THEN /\ segments' = Append(segments, RunSegment(path, ts, i1, i2'))
          /\ out' = out
     ELSE /\ segments' = segments
          /\ out' = Append(out, Warning(path[i1 + 1].token_index, Len(ts)))
  /\ i1' = i2'
  /\ UNCHANGED <<sched, aside, words, inputs, pc, err, tokens, trellis, t, j, path>>

\* merge_repeats, line 147
MergeRepeatsReturn ==
  /\ pc = "merge_repeats"
  /\ ~(i1 < Len(path))
  /\ pc' = "segments_done"
  /\ UNCHANGED <<sched, aside, i2, out, words, inputs, err, tokens, trellis, t, j, path,
                 i1, segments>>

\* merge_words, lines 152-153
MergeWordsStart ==
  /\ pc = "segments_done"
  /\ words' = <<>>
  /\ i1' = 0
  /\ i2' = 0
  /\ pc' = "merge_words"
  /\ UNCHANGED <<sched, aside, out, inputs, err, tokens, trellis, t, j, path, segments>>

\* merge_words, lines 154-164: one iteration of "while i1 < len(segments)"
MergeWordsStep ==
  /\ pc = "merge_words"
  /\ i1 < Len(segments)
  /\ IF i2 >= Len(segments) \/ segments[i2 + 1].label = Separator
     THEN IF i1 # i2 /\ TotalLength(segments, i1, i2) = 0
          THEN /\ pc' = "error"
               /\ err' = "ZeroDivisionError"
               /\ UNCHANGED <<words, i1, i2>>
          ELSE /\ words' = IF i1 # i2
                           THEN Append(words, WordSegment(segments, i1, i2))
                           ELSE words
               /\ i1' = i2 + 1
               /\ i2' = i1'
               /\ UNCHANGED <<pc, err>>
     ELSE /\ i2' = i2 + 1
          /\ UNCHANGED <<words, i1, pc, err>>
  /\ UNCHANGED <<sched, aside, out, inputs, tokens, trellis, t, j, path, segments>>

\* merge_words, line 165
MergeWordsReturn ==
  /\ pc = "merge_words"
  /\ ~(i1 < Len(segments))
  /\ pc' = "words_done"
  /\ UNCHANGED <<sched, aside, i2, out, words, inputs, err, tokens, trellis, t, j, path,
                 i1, segments>>

Next ==
  \/ Tokenize
  \/ InitTrellis
  \/ DPStep
  \/ TrellisReturn
  \/ BacktrackStart
  \/ BacktrackAssertFail
  \/ BacktrackStep
  \/ BacktrackPad
  \/ BacktrackReturn
  \/ MergeRepeatsStep
  \/ MergeRepeatsReturn
  \/ MergeWordsStart
  \/ MergeWordsStep
  \/ MergeWordsReturn

Spec == Init /\ [][Next]_vars

\* --------------------------------------------------- two alignments at once
\* the frame of the running invocation: arguments and locals of
\* trellis_algo, backtrack, merge_repeats and merge_words
Frame ==
  [labels |-> labels, ts |-> ts, emission |-> emission, blank_id |-> blank_id,
   pc |-> pc, err |-> err, tokens |-> tokens, trellis |-> trellis,
   t |-> t, j |-> j, path |-> path, i1 |-> i1, i2 |-> i2,
   segments |-> segments, words |-> words]

Arguments(f) ==
  [labels |-> f.labels, ts |-> f.ts, emission |-> f.emission,
   blank_id |-> f.blank_id]

\* the frame of a call that has not started
NewFrame(a) ==
  [labels |-> a.labels, ts |-> a.ts, emission |-> a.emission,
   blank_id |-> a.blank_id,
   pc |-> "trellis_algo", err |-> "none", tokens |-> <<>>, trellis |-> <<>>,
   t |-> 0, j |-> 0, path |-> <<>>, i1 |-> 0, i2 |-> 0,
   segments |-> <<>>, words |-> <<>>]

\* the arguments of the two calls: 2 or 3 frames, three transcripts (one of
\* them too long for 2 frames)
ConcEmissions ==
  {[tt \in 0..(nf - 1) |-> [c \in 0..1 |-> v[((tt + c) % 2) + 1]]] :
     nf \in {2, 3}, v \in {<<-2, 0>>, <<0, -1>>}}

ConcTranscripts == {<<"A">>, <<"|", "A">>, <<"A", "|", "A">>}

ConcArguments ==
  {[labels |-> GenLabels, ts |-> x, emission |-> e, blank_id |-> 0] :
     x \in ConcTranscripts, e \in ConcEmissions}

InitConc ==
  /\ IdleAside
  /\ IdleBatch
  /\ given \in [1..2 -> ConcArguments]
  /\ cur = 1
  /\ saved = NewFrame(given[2])
  /\ labels = given[1].labels
  /\ ts = given[1].ts
  /\ emission = given[1].emission
  /\ blank_id = given[1].blank_id
  /\ pc = "trellis_algo"
  /\ err = "none"
  /\ tokens = <<>>
  /\ trellis = <<>>
  /\ t = 0
  /\ j = 0
  /\ path = <<>>
  /\ i1 = 0
  /\ i2 = 0
  /\ segments = <<>>
  /\ out = <<>>
  /\ words = <<>>

\* the interpreter suspends the running invocation and resumes the other
Switch ==
  /\ saved # <<>>
  /\ saved' = Frame
  /\ cur' = 3 - cur
  /\ labels' = saved.labels
  /\ ts' = saved.ts
  /\ emission' = saved.emission
  /\ blank_id' = saved.blank_id
  /\ pc' = saved.pc
  /\ err' = saved.err
  /\ tokens' = saved.tokens
  /\ trellis' = saved.trellis
  /\ t' = saved.t
  /\ j' = saved.j
  /\ path' = saved.path
  /\ i1' = saved.i1
  /\ i2' = saved.i2
  /\ segments' = saved.segments
  /\ words' = saved.words
  /\ UNCHANGED <<aside, out, given>>

NextConc ==
  \/ Next
  \/ Switch

SpecConc == InitConc /\ [][NextConc]_vars

\* ----------------------------------------------- merge_repeats on its own
\* no alignment is running: the locals of trellis_algo and backtrack are unset
IdleAlignment ==
  /\ labels = <<>>
  /\ emission = <<>>
  /\ blank_id = 0
  /\ err = "none"
  /\ tokens = <<>>
  /\ trellis = <<>>
  /\ t = 0
  /\ j = 0

\* chronological paths whose token_index may exceed the transcript
MergePaths ==
  UNION {
    {[k \in 1..n |-> Point(tk[k], k - 1, <<"score", k>>)] :
       tk \in [1..n -> 0..MaxN]} :
    n \in 0..MaxPath}

InitMerge ==
  /\ Alone
  /\ IdleBatch
  /\ IdleAlignment
  /\ IdleAside
  /\ ts \in GenTranscripts
  /\ path \in MergePaths
  /\ pc = "merge_repeats"
  /\ i1 = 0
  /\ i2 = 0
  /\ segments = <<>>
  /\ out = <<>>
  /\ words = <<>>

NextMerge ==
  \/ MergeRepeatsStep
  \/ MergeRepeatsReturn

SpecMerge == InitMerge /\ [][NextMerge]_vars

\* ------------------------------------------------ the tokenizer on its own
\* vocabularies and transcript characters, "?" in no vocabulary
TokVocabularies == {<<"|", "A">>, <<"-", "|", "A", "B">>}
TokChars == {"|", "A", "B", "?"}

InitTok ==
  /\ Alone
  /\ IdleBatch
  /\ IdleAside
  /\ labels \in TokVocabularies
  /\ ts \in UNION {[1..n -> TokChars] : n \in 0..MaxN}
  /\ emission = <<>>
  /\ blank_id = 0
  /\ pc = "trellis_algo"
  /\ err = "none"
  /\ tokens = <<>>
  /\ trellis = <<>>
  /\ t = 0
  /\ j = 0
  /\ path = <<>>
  /\ i1 = 0
  /\ i2 = 0
  /\ segments = <<>>
  /\ out = <<>>
  /\ words = <<>>

NextTok == Tokenize

SpecTok == InitTok /\ [][NextTok]_vars

\* no alignment and no merging is running
IdlePipeline ==
  /\ IdleAlignment
  /\ ts = <<>>
  /\ path = <<>>
  /\ i1 = 0
  /\ i2 = 0
  /\ segments = <<>>
  /\ out = <<>>
  /\ words = <<>>

\* ------------------------------------------------- format_time on its own
\* decimal digits of a natural number
Digit(d) == SubSeq("0123456789", d + 1, d + 1)

RECURSIVE Str(_)
Str(n) == IF n < 10 THEN Digit(n) ELSE Str(n \div 10) \o Digit(n % 10)

\* ":02": at least two digits, zero-padded
Pad2(n) == IF n < 10 THEN "0" \o Str(n) ELSE Str(n)

\* ".2f" of a time of ms milliseconds, in hundredths: the nearest hundredth;
\* at an exact decimal tie the binary value of the float decides, either way
RoundedCs(ms) ==
  IF ms % 10 < 5 THEN {ms \div 10}
  ELSE IF ms % 10 > 5 THEN {ms \div 10 + 1}
  ELSE {ms \div 10, ms \div 10 + 1}

\* "05.2f": hundredths cs printed as SS.CC, zero-padded to width 5
Fixed2(cs) == Pad2(cs \div 100) \o "." \o Pad2(cs % 100)

\* lines 170-173, for a time of ms milliseconds and a rounding outcome cs
FormattedTime(ms, cs) ==
  LET hours == ms \div 3600000
      minutes == (ms % 3600000) \div 60000
  IN  Str(hours) \o ":" \o Pad2(minutes) \o ":" \o Fixed2(cs)

\* the times given to format_time, in milliseconds
TimeInputs ==
  {((h * 60 + m) * 60 + sec) * 1000 + f :
     h \in 0..MaxHours, m \in {0, 59}, sec \in {0, 1, 59}, f \in 0..999}

InitTime ==
  /\ Alone
  /\ IdleBatch
  /\ IdlePipeline
  /\ time_ms \in TimeInputs
  /\ stamp = <<>>
  /\ timing_info = <<>>
  /\ ass_content = <<>>
  /\ ass_k = 0
  /\ ass_file = <<>>
  /\ pc = "format_time"

\* format_time, lines 169-173
FormatTime ==
  /\ pc = "format_time"
  /\ \E cs \in RoundedCs(time_ms % 60000) :
        stamp' = FormattedTime(time_ms, cs)
  /\ pc' = "time_done"
  /\ UNCHANGED <<sched, batch, assVars, time_ms, i2, out, words, inputs, err, tokens, trellis,
                 t, j, path, i1, segments>>

NextTime == FormatTime

SpecTime == InitTime /\ [][NextTime]_vars

\* ------------------------------- subtitles.format_time beside format_time
\* subtitles.py line 7, "int(seconds * 100)", for a time of ms milliseconds:
\* the float product truncated; when the time is a whole number of
\* hundredths the product is that number or just below it, either way
TruncatedCs(ms) ==
  IF ms % 10 = 0 /\ ms > 0 THEN {ms \div 10, ms \div 10 - 1}
  ELSE {ms \div 10}

\* subtitles.py lines 8-12, for the truncated hundredths cs
SubtitlesFormattedTime(cs) ==
  LET hours == cs \div 360000
      minutes == (cs % 360000) \div 6000
      seconds == (cs % 6000) \div 100
      centiseconds == cs % 100
  IN  Str(hours) \o ":" \o Pad2(minutes) \o ":" \o Pad2(seconds)
        \o "." \o Pad2(centiseconds)

\* one call of either implementation
InitTimes ==
  /\ Alone
  /\ IdleBatch
  /\ IdlePipeline
  /\ time_ms \in TimeInputs
  /\ stamp = <<>>
  /\ timing_info = <<>>
  /\ ass_content = <<>>
  /\ ass_k = 0
  /\ ass_file = <<>>
  /\ pc \in {"format_time", "subtitles_format_time"}

\* subtitles.format_time, subtitles.py lines 5-12
SubtitlesFormatTime ==
  /\ pc = "subtitles_format_time"
  /\ \E cs \in TruncatedCs(time_ms) :
        stamp' = SubtitlesFormattedTime(cs)
  /\ pc' = "subtitles_time_done"
  /\ UNCHANGED <<sched, batch, assVars, time_ms, i2, out, words, inputs, err, tokens, trellis,
                 t, j, path, i1, segments>>

NextTimes ==
  \/ FormatTime
  \/ SubtitlesFormatTime

SpecTimes == InitTimes /\ [][NextTimes]_vars

\* --------------------------------------- convert_timing_to_ass on its own
\* lines 189-204: the header, line by line
AssHeader ==
  << "[Script Info]",
     "; Script generated by Python script",
     "Title: Default ASS file",
     "ScriptType: v4.00+",
     "PlayResX: 1080",
     "PlayResY: 1920",
     "ScaledBorderAndShadow: yes",
     "YCbCr Matrix: TV.709",
     "",
     "[V4+ Styles]",
     "Format: Name, Fontname, Fontsize, PrimaryColour, SecondaryColour, OutlineColour, BackColour, Bold, Italic, Underline, StrikeOut, ScaleX, ScaleY, Spacing, Angle, BorderStyle, Outline, Shadow, Alignment, MarginL, MarginR, MarginV, Encoding",
     "Style: Default,Arial,144,&H00FFFFFF,&H000000FF,&H00000000,&H00000000,0,0,0,0,100,100,0,0,1,3,3,5,10,10,10,1",
     "",
     "[Events]",
     "Format: Layer, Start, End, Style, Name, MarginL, MarginR, MarginV, Effect, Text" >>

Whitespace == {" ", "\n"}

RECURSIVE LStrip(_)
LStrip(w) ==
  IF Len(w) > 0 /\ SubSeq(w, 1, 1) \in Whitespace
  THEN LStrip(SubSeq(w, 2, Len(w))) ELSE w

RECURSIVE RStrip(_)
RStrip(w) ==
  IF Len(w) > 0 /\ SubSeq(w, Len(w), Len(w)) \in Whitespace
  THEN RStrip(SubSeq(w, 1, Len(w) - 1)) ELSE w

\* mutant: only the leading whitespace is removed
StripLeft(w) == LStrip(w)

\* line 209: word.strip()
Strip(w) == RStrip(LStrip(w))

\* line 210, without the final newline
DialogueLine(word, start_time, end_time) ==
  "Dialogue: 0," \o start_time \o "," \o end_time \o ",Default,,0,0,0,,"
    \o Strip(word)

\* the timed words given to convert_timing_to_ass
AssWords == {"HI", " HI", "HI ", " H I ", " ", ""}
AssTimes == {<<"0:00:00.00", "0:00:01.50">>, <<"0:00:01.50", "0:01:02.25">>}

AssInputs ==
  UNION {[1..n -> {<<w, tm[1], tm[2]>> : w \in AssWords, tm \in AssTimes}] :
           n \in 0..MaxEntries}

InitAss ==
  /\ Alone
  /\ IdleBatch
  /\ IdlePipeline
  /\ time_ms = 0
  /\ stamp = <<>>
  /\ timing_info \in AssInputs
  /\ ass_content = <<>>
  /\ ass_k = 0
  /\ ass_file = <<>>
  /\ pc = "convert_timing_to_ass"

\* convert_timing_to_ass, lines 189-204
AssStart ==
  /\ pc = "convert_timing_to_ass"
  /\ ass_content' = AssHeader
  /\ ass_k' = 0
  /\ pc' = "ass_loop"
  /\ UNCHANGED <<sched, batch, timeVars, timing_info, ass_file, i2, out, words, inputs, err,
                 tokens, trellis, t, j, path, i1, segments>>

\* convert_timing_to_ass, lines 207-210: one iteration of the for loop
AssDialogue ==
  /\ pc = "ass_loop"
  /\ ass_k < Len(timing_info)
  /\ LET e == timing_info[ass_k + 1] IN
       ass_content' = Append(ass_content, DialogueLine(e[1], e[2], e[3]))
  /\ ass_k' = ass_k + 1
  /\ UNCHANGED <<sched, batch, timeVars, timing_info, ass_file, pc, i2, out, words, inputs,
                 err, tokens, trellis, t, j, path, i1, segments>>

\* convert_timing_to_ass, lines 213-214: the file is written
AssWrite ==
  /\ pc = "ass_loop"
  /\ ~(ass_k < Len(timing_info))
  /\ ass_file' = ass_content
  /\ pc' = "ass_done"
  /\ UNCHANGED <<sched, batch, timeVars, timing_info, ass_content, ass_k, i2, out, words,
                 inputs, err, tokens, trellis, t, j, path, i1, segments>>

NextAss ==
  \/ AssStart
  \/ AssDialogue
  \/ AssWrite

SpecAss == InitAss /\ [][NextAss]_vars

\* ------------------------------------------------- merge_words on its own
InitWords ==
  /\ Alone
  /\ IdleBatch
  /\ IdleAlignment
  /\ IdleAside
  /\ ts = <<>>
  /\ path = <<>>
  /\ out = <<>>
  /\ segments \in WordInputs
  /\ pc = "segments_done"
  /\ i1 = 0
  /\ i2 = 0
  /\ words = <<>>

NextWords ==
  \/ MergeWordsStart
  \/ MergeWordsStep
  \/ MergeWordsReturn

SpecWords == InitWords /\ [][NextWords]_vars

\* --------------------------------------------------------- main.py: main
\* lines 43-49: the scripts of the pipeline, in order
Pipeline == <<"scraper", "tts", "subtitles", "BGM", "video">>

\* what running a script with subprocess.run(..., check=True) comes to:
\* it exits with 0, or one of the exceptions run_script catches is raised,
\* or the user interrupts it (KeyboardInterrupt is not an Exception)
Caught == {"CalledProcessError", "FileNotFoundError", "Exception"}
Outcomes == {"ok", "KeyboardInterrupt"} \cup Caught

\* mn: the behaviour of each script (the environment), the loop index of
\* main, the scripts started and finished so far, main's return value
\* ("none" until it returns)
InitMain ==
  /\ Alone
  /\ IdlePipeline
  /\ IdleAside
  /\ sp = <<>>
  /\ gs = <<>>
  /\ mn \in [scripts : [{Pipeline[k] : k \in 1..Len(Pipeline)} -> Outcomes],
             k : {0}, started : {<<>>}, finished : {<<>>}, result : {"none"}]
  /\ pc = "main"

\* the state of force_alignment.py, which the other entry points leave alone
alignmentVars == <<sched, timeVars, assVars, i2, out, words, inputs, tokens,
                   trellis, t, j, path, i1, segments>>

\* main line 55-56 and run_script lines 6-16: the next script is started
RunScript ==
  /\ pc = "main"
  /\ mn.k < Len(Pipeline)
  /\ mn' = [mn EXCEPT !.started = Append(@, Pipeline[mn.k + 1])]
  /\ pc' = "run_script"
  /\ UNCHANGED <<alignmentVars, sp, gs, err>>

\* mutant: a failed step is reported but the loop goes on
ScriptFailsGoOn ==
  /\ pc = "run_script"
  /\ mn.scripts[Pipeline[mn.k + 1]] \in Caught
  /\ mn' = [mn EXCEPT !.finished = Append(@, <<Pipeline[mn.k + 1], FALSE>>),
                      !.k = @ + 1]
  /\ pc' = "main"
  /\ UNCHANGED <<alignmentVars, sp, gs, err>>

\* run_script lines 26-34 (return False) and main lines 57-59
ScriptFails ==
  /\ pc = "run_script"
  /\ mn.scripts[Pipeline[mn.k + 1]] \in Caught
  /\ mn' = [mn EXCEPT !.finished = Append(@, <<Pipeline[mn.k + 1], FALSE>>),
                      !.result = "False"]
  /\ pc' = "main_done"
  /\ UNCHANGED <<alignmentVars, sp, gs, err>>

\* run_script lines 16-24 (return True): main goes on with the loop
ScriptSucceeds ==
  /\ pc = "run_script"
  /\ mn.scripts[Pipeline[mn.k + 1]] = "ok"
  /\ mn' = [mn EXCEPT !.finished = Append(@, <<Pipeline[mn.k + 1], TRUE>>),
                      !.k = @ + 1]
  /\ pc' = "main"
  /\ UNCHANGED <<alignmentVars, sp, gs, err>>

\* an exception that is not an Exception leaves run_script and main
ScriptInterrupted ==
  /\ pc = "run_script"
  /\ mn.scripts[Pipeline[mn.k + 1]] = "KeyboardInterrupt"
  /\ pc' = "main_raised"
  /\ err' = "KeyboardInterrupt"
  /\ UNCHANGED <<alignmentVars, sp, gs, mn>>

\* main lines 61-71: the loop is over
MainReturn ==
  /\ pc = "main"
  /\ ~(mn.k < Len(Pipeline))
  /\ mn' = [mn EXCEPT !.result = "True"]
  /\ pc' = "main_done"
  /\ UNCHANGED <<alignmentVars, sp, gs, err>>

NextMain ==
  \/ RunScript
  \/ ScriptSucceeds
  \/ ScriptFails
  \/ ScriptInterrupted
  \/ MainReturn

SpecMain == InitMain /\ [][NextMain]_vars

\* ------------------------- the text splitters of subtitles.py and tts.py
\* the characters of the texts, and the texts of at most n characters
TextChars == {"a", " ", ".", "\n"}

RECURSIVE Texts(_)
Texts(n) ==
  IF n = 0 THEN {""}
  ELSE LET shorter == Texts(n - 1)
       IN  shorter \cup {s \o c : s \in shorter, c \in TextChars}

\* text[a:b] of the code (0-based, b exclusive)
Slice(text, a, b) == SubSeq(text, a + 1, b)

Highest(S) == CHOOSE x \in S : \A y \in S : y <= x
Lowest(S) == CHOOSE x \in S : \A y \in S : x <= y

\* text.rfind(sub, lo, hi): the highest index in lo..hi-len(sub) at which
\* sub occurs, or -1
RFind(text, sub, lo, hi) ==
  LET hits == {i \in lo..(hi - Len(sub)) : Slice(text, i, i + Len(sub)) = sub}
  IN  IF hits = {} THEN -1 ELSE Highest(hits)

\* mutant: the chunk ends at the last space, not after it
BarkEndAtSpace(text, max_chunk_size, current_pos) ==
  LET text_length == Len(text)
      end_pos == Lowest({current_pos + max_chunk_size, text_length})
      sentence_end == Highest({RFind(text, ". ", current_pos, end_pos),
                               RFind(text, "! ", current_pos, end_pos),
                               RFind(text, "? ", current_pos, end_pos)})
      last_space == RFind(text, " ", current_pos, end_pos)
  IN  IF end_pos < text_length
      THEN IF sentence_end # -1 /\ sentence_end > current_pos
           THEN sentence_end + 1
           ELSE IF last_space # -1 THEN last_space ELSE end_pos
      ELSE end_pos

\* subtitles.py lines 24-38: the end_pos of the chunk that starts at
\* current_pos
BarkEnd(text, max_chunk_size, current_pos) ==
  LET text_length == Len(text)
      end_pos == Lowest({current_pos + max_chunk_size, text_length})
      sentence_end == Highest({RFind(text, ". ", current_pos, end_pos),
                               RFind(text, "! ", current_pos, end_pos),
                               RFind(text, "? ", current_pos, end_pos)})
      last_space == RFind(text, " ", current_pos, end_pos)
  IN  IF end_pos < text_length
      THEN IF sentence_end # -1 /\ sentence_end > current_pos
           THEN sentence_end + 1
           ELSE IF last_space # -1 THEN last_space + 1 ELSE end_pos
      ELSE end_pos

\* subtitles.py lines 40-42: the chunk is kept unless it is empty
BarkAppend(chunks, chunk) == IF chunk # "" THEN Append(chunks, chunk) ELSE chunks

\* tts.py line 135: the ends m.end() of the matches of [.!?]\s in the window
SentenceEndings(window) ==
  {i + 2 : i \in {i \in 0..(Len(window) - 2) :
                     /\ Slice(window, i, i + 1) \in {".", "!", "?"}
                     /\ Slice(window, i + 1, i + 2) \in Whitespace}}

\* tts.py lines 130-144: the end_pos of the chunk that starts at current_pos
TtsEnd(text, max_chunk_size, current_pos) ==
  LET end_pos == Lowest({current_pos + max_chunk_size, Len(text)})
      window == Slice(text, current_pos, end_pos)
      sentence_endings == SentenceEndings(window)
      last_space == RFind(window, " ", 0, Len(window))
  IN  IF end_pos < Len(text)
      THEN IF sentence_endings # {}
           THEN current_pos + Highest(sentence_endings)
           ELSE IF last_space > 0 THEN current_pos + last_space + 1 ELSE end_pos
      ELSE end_pos

\* sp: the arguments, and the locals of split_into_bark_chunks (bark) and
\* of _split_text_into_chunks (tts), called one after the other on the
\* same arguments
InitSplit ==
  /\ Alone
  /\ IdlePipeline
  /\ IdleAside
  /\ mn = <<>>
  /\ gs = <<>>
  /\ sp \in [text : Texts(MaxText), max_chunk_size : 1..MaxChunk,
             bark : {[current_pos |-> 0, chunks |-> <<>>]},
             tts : {[current_pos |-> 0, chunks |-> <<>>]}]
  /\ pc = "split_into_bark_chunks"

\* subtitles.py lines 16-17
BarkShort ==
  /\ pc = "split_into_bark_chunks"
  /\ Len(sp.text) <= sp.max_chunk_size
  /\ sp' = [sp EXCEPT !.bark.chunks = <<sp.text>>]
  /\ pc' = "bark_done"
  /\ UNCHANGED <<alignmentVars, err, mn, gs>>

\* subtitles.py lines 19-21
BarkBegin ==
  /\ pc = "split_into_bark_chunks"
  /\ ~(Len(sp.text) <= sp.max_chunk_size)
  /\ sp' = [sp EXCEPT !.bark = [current_pos |-> 0, chunks |-> <<>>]]
  /\ pc' = "bark_loop"
  /\ UNCHANGED <<alignmentVars, err, mn, gs>>

\* subtitles.py lines 23-43: one iteration of "while current_pos < text_length"
BarkStep ==
  /\ pc = "bark_loop"
  /\ sp.bark.current_pos < Len(sp.text)
  /\ LET end_pos == BarkEnd(sp.text, sp.max_chunk_size, sp.bark.current_pos)
         chunk == Strip(Slice(sp.text, sp.bark.current_pos, end_pos))
     IN  sp' = [sp EXCEPT !.bark = [current_pos |-> end_pos,
                                    chunks |-> BarkAppend(sp.bark.chunks, chunk)]]
  /\ UNCHANGED <<alignmentVars, err, mn, gs, pc>>

\* subtitles.py line 45
BarkReturn ==
  /\ pc = "bark_loop"
  /\ ~(sp.bark.current_pos < Len(sp.text))
  /\ pc' = "bark_done"
  /\ UNCHANGED <<alignmentVars, err, mn, gs, sp>>

\* tts.py lines 122-123
TtsShort ==
  /\ pc = "bark_done"
  /\ Len(sp.text) <= sp.max_chunk_size
  /\ sp' = [sp EXCEPT !.tts.chunks = <<sp.text>>]
  /\ pc' = "tts_done"
  /\ UNCHANGED <<alignmentVars, err, mn, gs>>

\* tts.py lines 125-126
TtsBegin ==
  /\ pc = "bark_done"
  /\ ~(Len(sp.text) <= sp.max_chunk_size)
  /\ sp' = [sp EXCEPT !.tts = [current_pos |-> 0, chunks |-> <<>>]]
  /\ pc' = "tts_loop"
  /\ UNCHANGED <<alignmentVars, err, mn, gs>>

\* tts.py lines 128-148: one iteration of "while current_pos < len(text)"
TtsStep ==
  /\ pc = "tts_loop"
  /\ sp.tts.current_pos < Len(sp.text)
  /\ LET end_pos == TtsEnd(sp.text, sp.max_chunk_size, sp.tts.current_pos)
         chunk == Strip(Slice(sp.text, sp.tts.current_pos, end_pos))
     IN  sp' = [sp EXCEPT !.tts = [current_pos |-> end_pos,
                                   chunks |-> Append(sp.tts.chunks, chunk)]]
  /\ UNCHANGED <<alignmentVars, err, mn, gs, pc>>

\* tts.py line 150
TtsReturn ==
  /\ pc = "tts_loop"
  /\ ~(sp.tts.current_pos < Len(sp.text))
  /\ pc' = "tts_done"
  /\ UNCHANGED <<alignmentVars, err, mn, gs, sp>>

NextSplit ==
  \/ BarkShort
  \/ BarkBegin
  \/ BarkStep
  \/ BarkReturn
  \/ TtsShort
  \/ TtsBegin
  \/ TtsStep
  \/ TtsReturn

SpecSplit == InitSplit /\ [][NextSplit]_vars

\* every call runs on: a loop that can take a step takes it
SpecSplitFair == SpecSplit /\ WF_vars(NextSplit)

\* ----------------------------------------- subtitles.py: generate_subtitles
\* the defaults of split_into_bark_chunks and split_chunk_into_words
DefaultMaxChunkSize == 200
DefaultMaxWordsPerLine == 2

RECURSIVE BarkLoop(_, _, _, _)
\* subtitles.py lines 23-45: the loop, from current_pos on
BarkLoop(text, max_chunk_size, current_pos, chunks) ==
  IF current_pos < Len(text)
  THEN LET end_pos == BarkEnd(text, max_chunk_size, current_pos)
       IN  BarkLoop(text, max_chunk_size, end_pos,
                    BarkAppend(chunks, Strip(Slice(text, current_pos, end_pos))))
  ELSE chunks

\* subtitles.py lines 14-45, as one call
SplitIntoBarkChunks(text, max_chunk_size) ==
  IF Len(text) <= max_chunk_size THEN <<text>>
  ELSE BarkLoop(text, max_chunk_size, 0, <<>>)

RECURSIVE Split(_)
\* chunk.split(): the maximal runs of characters that are not whitespace
Split(s) ==
  LET rest == LStrip(s)
      \* the position of the first whitespace of rest, Len(rest) + 1 if none
      stop == Lowest({i \in 1..Len(rest) : SubSeq(rest, i, i) \in Whitespace}
                       \cup {Len(rest) + 1})
  IN  IF rest = "" THEN <<>>
      ELSE <<SubSeq(rest, 1, stop - 1)>> \o Split(SubSeq(rest, stop, Len(rest)))

RECURSIVE Join(_)
\* " ".join(ws)
Join(ws) ==
  IF Len(ws) = 0 THEN ""
  ELSE IF Len(ws) = 1 THEN ws[1]
  ELSE ws[1] \o " " \o Join(Tail(ws))

\* subtitles.py lines 47-54: the words of a chunk in groups of at most
\* max_words_per_line
SplitChunkIntoWords(chunk, max_words_per_line) ==
  LET ws == Split(chunk)
      n == (Len(ws) + max_words_per_line - 1) \div max_words_per_line
  IN  [g \in 1..n |->
         Join(SubSeq(ws, (g - 1) * max_words_per_line + 1,
                     Lowest({g * max_words_per_line, Len(ws)})))]

\* the float times of the code as exact fractions <<numerator, denominator>>
\* in lowest terms
RECURSIVE GCD(_, _)
GCD(a, b) == IF b = 0 THEN a ELSE GCD(b, a % b)
Rat(n, d) == IF n = 0 THEN <<0, 1>> ELSE <<n \div GCD(n, d), d \div GCD(n, d)>>
RPlus(a, b) == Rat(a[1] * b[2] + b[1] * a[2], a[2] * b[2])
RTimes(k, a) == Rat(k * a[1], a[2])
ROver(a, k) == Rat(a[1], a[2] * k)
RLeq(a, b) == a[1] * b[2] <= b[1] * a[2]

\* subtitles.py line 7 on an exact time: the whole hundredths below it
Hundredths(a) == (100 * a[1]) \div a[2]

RECURSIVE Lower(_)
\* f.lower() on the characters of the file names
Lower(s) ==
  LET c == SubSeq(s, 1, 1)
      lower == IF c = "W" THEN "w" ELSE IF c = "A" THEN "a"
               ELSE IF c = "V" THEN "v" ELSE c
  IN  IF s = "" THEN "" ELSE lower \o Lower(SubSeq(s, 2, Len(s)))

\* s.endswith(suffix)
EndsWith(s, suffix) ==
  Len(s) >= Len(suffix) /\ SubSeq(s, Len(s) - Len(suffix) + 1, Len(s)) = suffix

\* os.path.splitext(f)[0]: f without its last extension
SplitExtRoot(f) ==
  IF RFind(f, ".", 0, Len(f)) > 0 THEN Slice(f, 0, RFind(f, ".", 0, Len(f))) ELSE f

\* line 60: the .wav files of the listing, in its order
RECURSIVE WavFilesOf(_)
WavFilesOf(listing) ==
  IF Len(listing) = 0 THEN <<>>
  ELSE (IF EndsWith(Lower(Head(listing)), ".wav") THEN <<Head(listing)>> ELSE <<>>)
         \o WavFilesOf(Tail(listing))

\* line 71: the first row whose File Name is the name, <<>> (None) if none
RECURSIVE MatchingRow(_, _)
MatchingRow(csv_rows, name) ==
  IF Len(csv_rows) = 0 THEN <<>>
  ELSE IF Head(csv_rows).file_name = name THEN Head(csv_rows)
  ELSE MatchingRow(Tail(csv_rows), name)

\* line 79
FullText(row) == row.title \o ". " \o row.post_content

\* mutant: the characters of the whole text, those stripped included
TotalCharsOfText(text, bark_chunks) == Len(text)

RECURSIVE TotalChars(_, _)
\* line 95: sum(len(chunk) for chunk in bark_chunks)
TotalChars(text, bark_chunks) ==
  IF Len(bark_chunks) = 0 THEN 0
  ELSE Len(Head(bark_chunks)) + TotalChars(text, Tail(bark_chunks))

\* lines 98-111: the header, line by line
SubtitlesHeader ==
  << "[Script Info]",
     "Title: Generated Subtitles",
     "ScriptType: v4.00+",
     "WrapStyle: 0",
     "ScaledBorderAndShadow: yes",
     "YCbCr Matrix: TV.709",
     "",
     "[V4+ Styles]",
     "Format: Name, Fontname, Fontsize, PrimaryColour, SecondaryColour, OutlineColour, BackColour, Bold, Italic, Underline, StrikeOut, ScaleX, ScaleY, Spacing, Angle, BorderStyle, Outline, Shadow, Alignment, MarginL, MarginR, MarginV, Encoding",
     "Style: Default,Arial,20,&H00FFFFFF,&H000000FF,&H00000000,&H00000000,1,0,0,0,150,150,0,0,1,3,3,5,10,10,10,1",
     "",
     "[Events]",
     "Format: Layer, Start, End, Style, Name, MarginL, MarginR, MarginV, Effect, Text" >>

\* line 128, without the final newline
SubtitlesDialogue(current_time, end_time, word_group) ==
  "Dialogue: 0," \o SubtitlesFormattedTime(Hundredths(current_time)) \o ","
    \o SubtitlesFormattedTime(Hundredths(end_time)) \o ",Default,,0,0,0,,"
    \o word_group

\* the files the voiceovers folder may hold, the CSV files, and what
\* becomes of a WAV file: pydub cannot read it, or it has a length (in
\* milliseconds) and its .ass file can or cannot be opened for writing
FileNames == {"a.wav", "b.WAV", "x.wav", "notes.txt"}

RECURSIVE Rep(_, _)
\* n times the character c
Rep(c, n) ==
  IF n = 0 THEN ""
  ELSE IF n % 2 = 0 THEN Rep(c, n \div 2) \o Rep(c, n \div 2)
  ELSE c \o Rep(c, n - 1)

\* no row; a row for a.wav; a row for b.WAV, of three chunks, before it
CsvFiles ==
  LET RowA == [file_name |-> "a", title |-> "T", post_content |-> "one two  three"]
      RowB == [file_name |-> "b", title |-> Rep("A", 150),
               post_content |-> Rep("B", 120) \o " " \o Rep("C", 100) \o " "
                                  \o Rep("D", 20) \o " " \o Rep("E", 20)]
  IN  {<<>>, <<RowA>>, <<RowB, RowA>>}

Fates == {[readable |-> FALSE, length_ms |-> 0, ass |-> "writable"]}
           \cup [readable : {TRUE}, length_ms : {0, 1500},
                 ass : {"writable", "unwritable"}]

RECURSIVE Listings(_)
\* the listings of at most n different files, in any order
Listings(n) ==
  IF n = 0 THEN {<<>>}
  ELSE LET shorter == Listings(n - 1)
       IN  shorter \cup
           UNION {{Append(l, f) : f \in FileNames \ {l[i] : i \in 1..Len(l)}} :
                    l \in {l \in shorter : Len(l) = n - 1}}

\* the locals of generate_subtitles before the loop over the files
GsStart(l, c, f) ==
  [listing |-> l, csv_rows |-> c, fate |-> f,
   wav_files |-> <<>>, k |-> 0,
   duration |-> <<0, 1>>, bark_chunks |-> <<>>, time_per_char |-> <<0, 1>>,
   c |-> 0, word_groups |-> <<>>, time_per_group |-> <<0, 1>>, g |-> 0,
   current_time |-> <<0, 1>>, ass_content |-> <<>>,
   files |-> <<>>, printed |-> <<>>,
   cues |-> <<>>, handled |-> <<>>]

InitSubtitles ==
  /\ Alone
  /\ IdlePipeline
  /\ IdleAside
  /\ mn = <<>>
  /\ sp = <<>>
  /\ gs \in UNION {{GsStart(l, c, f) : c \in CsvFiles,
                                         f \in [{l[i] : i \in 1..Len(l)} -> Fates]} :
                     l \in Listings(MaxFiles)}
  /\ pc = "generate_subtitles"

\* the file the loop is at, its name without extension and its .ass path
WavFile == gs.wav_files[gs.k + 1]
AssPath == SplitExtRoot(WavFile) \o ".ass"

\* what the loop did with a file, for the record
Handled(outcome) ==
  Append(gs.handled, [wav_file |-> WavFile, outcome |-> outcome, cues |-> gs.cues])

\* lines 58-67: the .wav files of the folder; none: return
GenerateStart ==
  /\ pc = "generate_subtitles"
  /\ LET wav_files == WavFilesOf(gs.listing)
     IN  IF wav_files = <<>>
         THEN /\ gs' = [gs EXCEPT !.printed = Append(@, "No WAV files found")]
              /\ pc' = "subtitles_done"
         ELSE /\ gs' = [gs EXCEPT !.wav_files = wav_files, !.k = 0]
              /\ pc' = "wav_loop"
  /\ UNCHANGED <<alignmentVars, err, mn, sp>>

\* lines 69-75: no row of the CSV has the file's name: next file
WavNoRow ==
  /\ pc = "wav_loop"
  /\ gs.k < Len(gs.wav_files)
  /\ MatchingRow(gs.csv_rows, SplitExtRoot(WavFile)) = <<>>
  /\ gs' = [gs EXCEPT !.printed = Append(@, "No matching row found for " \o WavFile),
                      !.cues = <<>>,
                      !.handled = Handled("no row"),
                      !.k = @ + 1]
  /\ UNCHANGED <<alignmentVars, err, mn, sp, pc>>

\* mutant: the exception is not caught and ends the whole batch
WavUnreadableStops ==
  /\ pc = "wav_loop"
  /\ gs.k < Len(gs.wav_files)
  /\ MatchingRow(gs.csv_rows, SplitExtRoot(WavFile)) # <<>>
  /\ ~gs.fate[WavFile].readable
  /\ gs' = [gs EXCEPT !.cues = <<>>,
                      !.handled = Handled("error")]
  /\ pc' = "subtitles_done"
  /\ UNCHANGED <<alignmentVars, err, mn, sp>>

\* lines 77-88 and 137-139: AudioSegment.from_file raises: next file
WavUnreadable ==
  /\ pc = "wav_loop"
  /\ gs.k < Len(gs.wav_files)
  /\ MatchingRow(gs.csv_rows, SplitExtRoot(WavFile)) # <<>>
  /\ ~gs.fate[WavFile].readable
  /\ gs' = [gs EXCEPT !.printed = Append(@, "Error during subtitle generation for " \o WavFile),
                      !.cues = <<>>,
                      !.handled = Handled("error"),
                      !.k = @ + 1]
  /\ UNCHANGED <<alignmentVars, err, mn, sp, pc>>

\* lines 77-114: the duration, the chunks, the time per character
WavPrepare ==
  /\ pc = "wav_loop"
  /\ gs.k < Len(gs.wav_files)
  /\ MatchingRow(gs.csv_rows, SplitExtRoot(WavFile)) # <<>>
  /\ gs.fate[WavFile].readable
  /\ LET full_text == FullText(MatchingRow(gs.csv_rows, SplitExtRoot(WavFile)))
         duration == Rat(gs.fate[WavFile].length_ms, 1000)
         bark_chunks == SplitIntoBarkChunks(full_text, DefaultMaxChunkSize)
         total_chars == TotalChars(full_text, bark_chunks)
     IN  IF total_chars = 0
         THEN /\ gs' = [gs EXCEPT !.printed = Append(@, "Error during subtitle generation for " \o WavFile),
                                  !.cues = <<>>,
                                  !.handled = Handled("error"),
                                  !.k = @ + 1]
              /\ pc' = pc
         ELSE /\ gs' = [gs EXCEPT !.duration = duration,
                                  !.bark_chunks = bark_chunks,
                                  !.time_per_char = ROver(duration, total_chars),
                                  !.ass_content = SubtitlesHeader,
                                  !.current_time = <<0, 1>>,
                                  !.cues = <<>>,
                                  !.c = 0]
              /\ pc' = "chunk_loop"
  /\ UNCHANGED <<alignmentVars, err, mn, sp>>

\* lines 115-123: the next chunk, its duration and its word groups
ChunkStart ==
  /\ pc = "chunk_loop"
  /\ gs.c < Len(gs.bark_chunks)
  /\ LET bark_chunk == gs.bark_chunks[gs.c + 1]
         chunk_duration == RTimes(Len(bark_chunk), gs.time_per_char)
         word_groups == SplitChunkIntoWords(bark_chunk, DefaultMaxWordsPerLine)
     IN  IF Len(word_groups) = 0
         THEN /\ gs' = [gs EXCEPT !.printed = Append(@, "Error during subtitle generation for " \o WavFile),
                                  !.handled = Handled("error"),
                                  !.k = @ + 1]
              /\ pc' = "wav_loop"
         ELSE /\ gs' = [gs EXCEPT !.word_groups = word_groups,
                                  !.time_per_group = ROver(chunk_duration, Len(word_groups)),
                                  !.g = 0]
              /\ pc' = "group_loop"
  /\ UNCHANGED <<alignmentVars, err, mn, sp>>

\* lines 126-129: one cue; after the last word group the chunk is done
CueStep ==
  /\ pc = "group_loop"
  /\ gs.g < Len(gs.word_groups)
  /\ LET word_group == gs.word_groups[gs.g + 1]
         end_time == RPlus(gs.current_time, gs.time_per_group)
     IN  gs' = [gs EXCEPT !.ass_content = Append(@,
                              SubtitlesDialogue(gs.current_time, end_time, word_group)),
                          !.cues = Append(@, [start |-> gs.current_time,
                                              end |-> end_time,
                                              text |-> word_group]),
                          !.current_time = end_time,
                          !.g = @ + 1,
                          !.c = IF gs.g + 1 < Len(gs.word_groups) THEN @ ELSE @ + 1]
  /\ pc' = IF gs.g + 1 < Len(gs.word_groups) THEN "group_loop" ELSE "chunk_loop"
  /\ UNCHANGED <<alignmentVars, err, mn, sp>>

\* lines 131-135: the .ass file is written
WavWritten ==
  /\ pc = "chunk_loop"
  /\ ~(gs.c < Len(gs.bark_chunks))
  /\ gs.fate[WavFile].ass = "writable"
  /\ gs' = [gs EXCEPT !.files = [n \in DOMAIN @ \cup {AssPath} |->
                                   IF n = AssPath THEN gs.ass_content ELSE @[n]],
                      !.printed = Append(@, "Subtitles generated: " \o AssPath),
                      !.handled = Handled("written"),
                      !.k = @ + 1]
  /\ pc' = "wav_loop"
  /\ UNCHANGED <<alignmentVars, err, mn, sp>>

\* lines 132 and 137-139: open(ass_path, 'w') raises: next file
WavUnwritable ==
  /\ pc = "chunk_loop"
  /\ ~(gs.c < Len(gs.bark_chunks))
  /\ gs.fate[WavFile].ass = "unwritable"
  /\ gs' = [gs EXCEPT !.printed = Append(@, "Error during subtitle generation for " \o WavFile),
                      !.handled = Handled("write error"),
                      !.k = @ + 1]
  /\ pc' = "wav_loop"
  /\ UNCHANGED <<alignmentVars, err, mn, sp>>

\* line 69: the loop over the files is over
GenerateReturn ==
  /\ pc = "wav_loop"
  /\ ~(gs.k < Len(gs.wav_files))
  /\ pc' = "subtitles_done"
  /\ UNCHANGED <<alignmentVars, err, mn, sp, gs>>

NextSubtitles ==
  \/ GenerateStart
  \/ WavNoRow
  \/ WavUnreadable
  \/ WavPrepare
  \/ ChunkStart
  \/ CueStep
  \/ WavWritten
  \/ WavUnwritable
  \/ GenerateReturn

SpecSubtitles == InitSubtitles /\ [][NextSubtitles]_vars

\* ================================================================ claims
TrellisReturned ==
  \/ pc \in {"backtrack", "bt_loop", "merge_repeats", "segments_done",
             "merge_words", "words_done"}
  \/ pc = "error" /\ err = "AssertionError"

PathReturned ==
  pc \in {"merge_repeats", "segments_done", "merge_words", "words_done"}

Feasible == num_tokens >= 1 /\ num_tokens <= num_frame

\* C1: for finite emissions and 1 <= N <= F, the returned trellis holds a
\* finite value in every entry (t,j) with j <= t, in particular in
\* (F-1,N-1).  (Stated as claimed; the code stores +inf in column 0.)
C1_ReachableFinite ==
  (TrellisReturned /\ Feasible) =>
     /\ \A tt \in 0..num_frame-1 : \A jj \in 0..num_tokens-1 :
          jj <= tt => IsFinite(trellis[tt][jj])
     /\ IsFinite(trellis[num_frame - 1][num_tokens - 1])

\* C2: for N <= F the returned path has exactly F points, with time_index
\* 0,1,..,F-1 in order, token_index never decreasing, and token_index N-1
\* at the last point.
C2_PathShape ==
  (PathReturned /\ Feasible) =>
     /\ Len(path) = num_frame
     /\ \A i \in 1..Len(path) : path[i].time_index = i - 1
     /\ \A i \in 1..(Len(path) - 1) :
          path[i].token_index <= path[i + 1].token_index
     /\ path[Len(path)].token_index = num_tokens - 1

C2_Witness ==
  /\ pc = "segments_done"
  /\ num_frame = 3 /\ num_tokens = 2
  /\ path[1].token_index = 0 /\ path[2].token_index = 1
  /\ path[3].token_index = 1

\* the alignments of N tokens to F frames: start at token 0, end at token
\* N-1, stay or advance by one between consecutive frames
Alignments ==
  {v \in [0..num_frame-1 -> 0..num_tokens-1] :
     /\ v[0] = 0
     /\ v[num_frame - 1] = num_tokens - 1
     /\ \A tt \in 0..num_frame-2 : v[tt + 1] \in {v[tt], v[tt] + 1}}

RECURSIVE AlignmentScore(_, _)
\* total log-score of the transitions out of frames 0..tt-1
AlignmentScore(v, tt) ==
  IF tt <= 0 THEN 0
  ELSE AlignmentScore(v, tt - 1) +
       (IF v[tt] = v[tt - 1] THEN emission[tt - 1][blank_id]
        ELSE emission[tt - 1][Tok(v[tt])])

PathAlignment == [tt \in 0..num_frame-1 |-> path[tt + 1].token_index]

\* C3: for N <= F no alignment has a larger total log-score than the
\* returned path (stay out of frame t: emission(t, blank); advance into
\* token j out of frame t: emission(t, token[j])).
C3_PathOptimal ==
  (PathReturned /\ Feasible) =>
     \A v \in Alignments :
        AlignmentScore(v, num_frame - 1) <=
          AlignmentScore(PathAlignment, num_frame - 1)

\* C4: with N > F trellis_algo fails before any dynamic-programming step
\* and never returns a trellis.
C4_InfeasibleRejected ==
  (Len(ts) > num_frame) =>
     /\ pc \in {"trellis_algo", "error"}
     /\ trellis = <<>>

\* C5: with an empty token sequence trellis_algo fails with an error before
\* any trellis is allocated or filled, and returns nothing.
C5_EmptyRejected ==
  (Len(ts) = 0 /\ pc # "trellis_algo") =>
     /\ pc = "error"
     /\ err = "ValueError"
     /\ tokens = <<>>
     /\ trellis = <<>>

C5_Witness == pc = "error" /\ err = "ValueError" /\ ts = <<>>

\* C6: when the backward walk stands at t = 0 with j > 0, the next step of
\* backtrack is the failure, no path is returned, and a returned path
\* never starts at a token_index > 0.
C6_WalkExhausted ==
  /\ [](PathReturned => path[1].token_index = 0)
  /\ [][(pc = "bt_loop" /\ t = 0 /\ j > 0) =>
          (pc' = "error" /\ err' = "AssertionError" /\ path' = path)]_vars

C6_Witness ==
  /\ pc = "error" /\ err = "AssertionError"
  /\ t = 0 /\ j > 0
  /\ Len(path) >= 2

\* the steps of "while j > 0" recorded in the path under construction:
\* point k was appended by a step that started at token path[k-1].token_index
WalkSteps == {k \in 2..Len(path) : path[k - 1].token_index > 0}

StayOf(k) ==
  XAdd(trellis[path[k].time_index][path[k - 1].token_index],
       emission[path[k].time_index][blank_id])

ChangeOf(k) ==
  XAdd(trellis[path[k].time_index][path[k - 1].token_index - 1],
       emission[path[k].time_index][Tok(path[k - 1].token_index)])

\* C7: a step of backtrack decrements j iff change is strictly greater
\* than stay; on an exact tie j is unchanged and the point carries the
\* blank-class probability.
C7_StrictTieBreak ==
  (pc = "bt_loop") =>
     \A k \in WalkSteps :
        /\ path[k].token_index \in
             {path[k - 1].token_index, path[k - 1].token_index - 1}
        /\ (path[k].token_index = path[k - 1].token_index - 1)
             <=> (ChangeOf(k) > StayOf(k))
        /\ (ChangeOf(k) = StayOf(k)) =>
             /\ path[k].token_index = path[k - 1].token_index
             /\ path[k].score = Exp(emission[path[k].time_index][blank_id])

C7_Witness ==
  /\ pc = "bt_loop"
  /\ \E k \in WalkSteps :
       /\ ChangeOf(k) = StayOf(k)
       /\ IsFinite(StayOf(k))
       /\ path[k].token_index = path[k - 1].token_index

\* C8: with N = F every point of the path has token_index = time_index, at
\* every moment of the backward walk and in the returned path, and the walk
\* does not fail: no backward step is a stay.
C8_OneFramePerToken ==
  (num_tokens >= 1 /\ num_tokens = num_frame) =>
     /\ ~(pc = "error")
     /\ (pc = "bt_loop" \/ PathReturned) =>
          \A k \in 1..Len(path) : path[k].token_index = path[k].time_index
     /\ PathReturned => Len(path) = num_frame

C8_Witness ==
  /\ pc = "segments_done"
  /\ num_tokens = num_frame /\ num_frame >= 3
  /\ \A k \in 1..Len(path) : path[k].token_index = k - 1

\* C9: with N = 1 the pipeline yields exactly one character segment, with
\* start 0 and end F.
C9_SingleToken ==
  (pc = "segments_done" /\ Len(ts) = 1) =>
     /\ Len(segments) = 1
     /\ segments[1].start = 0
     /\ segments[1].end = num_frame
     /\ segments[1].label = ts[1]

C9_Witness ==
  /\ pc = "segments_done" /\ Len(ts) = 1 /\ num_frame >= 3
  /\ Len(segments) = 1 /\ segments[1].end = num_frame

IsScenario == labels = ScenLabels /\ ts = ScenTranscript

HasSegment(label, start, end) ==
  \E k \in 1..Len(segments) :
     /\ segments[k].label = label
     /\ segments[k].start = start
     /\ segments[k].end = end

ScenAStart == IF emission[2][1] > emission[1][1] THEN 3 ELSE 2

WordRuns(segs) ==
  {r \in (1..Len(segs)) \X (1..Len(segs)) :
     /\ r[1] <= r[2]
     /\ \A k \in r[1]..r[2] : segs[k].label # "|"
     /\ r[1] = 1 \/ segs[r[1] - 1].label = "|"
     /\ r[2] = Len(segs) \/ segs[r[2] + 1].label = "|"}

\* the position of run r among the runs R, in input order
RankIn(R, r) == Cardinality({q \in R : q[1] < r[1]}) + 1

\* C11: merge_words returns exactly one word per maximal run of
\* consecutive non-separator segments, in input order, labelled with the
\* run's labels in order, from the first segment's start to the last
\* segment's end; separators and empty runs give no word.
C11_OneWordPerRun ==
  (pc = "words_done") =>
     /\ Len(words) = Cardinality(WordRuns(segments))
     /\ \A r \in WordRuns(segments) :
          LET w == words[RankIn(WordRuns(segments), r)] IN
          /\ Len(w.label) = r[2] - r[1] + 1
          /\ \A i \in 1..Len(w.label) :
               SubSeq(w.label, i, i) = segments[r[1] + i - 1].label
          /\ w.start = segments[r[1]].start
          /\ w.end = segments[r[2]].end

\* the example: ('|',0,1), ('H',1,2), ('I',2,3), ('|',3,4) gives HI [1,3)
C11_Witness ==
  /\ pc = "words_done"
  /\ Len(segments) = 4
  /\ segments[1].label = "|" /\ segments[2].label = "H"
  /\ segments[3].label = "I" /\ segments[4].label = "|"
  /\ segments[2].start = 1 /\ segments[3].end = 3
  /\ Len(words) = 1
  /\ words[1].label = "HI" /\ words[1].start = 1 /\ words[1].end = 3

\* the maximal runs <<a, b>> of consecutive non-separator characters of
\* the transcript
TranscriptRuns ==
  {r \in (1..Len(ts)) \X (1..Len(ts)) :
     /\ r[1] <= r[2]
     /\ \A k \in r[1]..r[2] : ts[k] # "|"
     /\ r[1] = 1 \/ ts[r[1] - 1] = "|"
     /\ r[2] = Len(ts) \/ ts[r[2] + 1] = "|"}

\* C12: for N <= F the labels of the words, in order, are the transcript
\* cut at its separators: one word per maximal run of non-separator
\* characters, spelling that run.
C12_WordsSpellTranscript ==
  (pc = "words_done" /\ Len(ts) >= 1 /\ Len(ts) <= num_frame) =>
     /\ Len(words) = Cardinality(TranscriptRuns)
     /\ \A r \in TranscriptRuns :
          LET w == words[RankIn(TranscriptRuns, r)] IN
          /\ Len(w.label) = r[2] - r[1] + 1
          /\ \A i \in 1..Len(w.label) :
               SubSeq(w.label, i, i) = ts[r[1] + i - 1]

C12_Witness ==
  /\ pc = "words_done"
  /\ ts = <<"A", "|", "A">>
  /\ Len(words) = 2
  /\ words[1].label = "A" /\ words[2].label = "A"

\* the maximal runs <<a, b>> (1-based, inclusive) of consecutive path
\* points with equal token_index
PathRuns(p) ==
  {r \in (1..Len(p)) \X (1..Len(p)) :
     /\ r[1] <= r[2]
     /\ \A k \in r[1]..r[2] : p[k].token_index = p[r[1]].token_index
     /\ r[1] = 1 \/ p[r[1] - 1].token_index # p[r[1]].token_index
     /\ r[2] = Len(p) \/ p[r[2] + 1].token_index # p[r[1]].token_index}

\* the runs whose token_index is a position of the transcript
InRangeRuns(p) == {r \in PathRuns(p) : p[r[1]].token_index < Len(ts)}

\* C13: a run whose token_index is >= the transcript length raises no
\* error and gives no segment, only a warning; every other run still gives
\* its segment, unchanged and in order.
C13_OutOfRangeSkipped ==
  /\ pc \in {"merge_repeats", "segments_done"} => err = "none"
  /\ (pc = "segments_done") =>
       /\ Len(segments) = Cardinality(InRangeRuns(path))
       /\ Len(out) = Cardinality(PathRuns(path) \ InRangeRuns(path))
       /\ \A r \in InRangeRuns(path) :
            LET g == segments[RankIn(InRangeRuns(path), r)] IN
            /\ g.label = ts[path[r[1]].token_index + 1]
            /\ g.start = path[r[1]].time_index
            /\ g.end = path[r[2]].time_index + 1
            /\ g.score = Mean([k \in 1..(r[2] - r[1] + 1) |->
                                 path[r[1] + k - 1].score])

C13_Witness ==
  /\ pc = "segments_done"
  /\ Len(path) = 3
  /\ path[1].token_index < Len(ts)
  /\ path[2].token_index >= Len(ts)
  /\ path[3].token_index < Len(ts)
  /\ Len(segments) = 2 /\ Len(out) = 1

\* C14 (as claimed): format_time prints H:MM:SS.CC with the centiseconds
\* truncated: a time of k milliseconds prints as floor(k/10) centiseconds.
C14_Truncates ==
  (pc = "time_done") =>
     LET cs == time_ms \div 10 IN
     stamp = Str(cs \div 360000) \o ":" \o Pad2((cs % 360000) \div 6000)
               \o ":" \o Pad2((cs % 6000) \div 100) \o "." \o Pad2(cs % 100)

\* the positions of the characters of w that are not whitespace
Inked(w) == {i \in 1..Len(w) : SubSeq(w, i, i) # " "}

Smallest(S) == CHOOSE x \in S : \A y \in S : x <= y
Largest(S) == CHOOSE x \in S : \A y \in S : x >= y

\* w from its first to its last character that is not whitespace
Trimmed(w) ==
  IF Inked(w) = {} THEN "" ELSE SubSeq(w, Smallest(Inked(w)), Largest(Inked(w)))

\* C15: the file is the header followed by exactly one Dialogue line per
\* entry of timing_info, in input order, of the form
\* Dialogue: 0,<start>,<end>,Default,,0,0,0,,<word trimmed>.
C15_OneDialoguePerEntry ==
  (pc = "ass_done") =>
     /\ Len(ass_file) = Len(AssHeader) + Len(timing_info)
     /\ SubSeq(ass_file, 1, Len(AssHeader)) = AssHeader
     /\ \A k \in 1..Len(timing_info) :
          ass_file[Len(AssHeader) + k] =
            "Dialogue: 0," \o timing_info[k][2] \o "," \o timing_info[k][3]
              \o ",Default,,0,0,0,," \o Trimmed(timing_info[k][1])

C15_Witness ==
  /\ pc = "ass_done"
  /\ Len(timing_info) = 2
  /\ timing_info[1][1] = " H I " /\ timing_info[2][1] = "HI "
  /\ ass_file[Len(AssHeader) + 1] = "Dialogue: 0,0:00:00.00,0:00:01.50,Default,,0,0,0,,H I"
  /\ ass_file[Len(AssHeader) + 2] = "Dialogue: 0,0:00:01.50,0:01:02.25,Default,,0,0,0,,HI"

\* C17: the tokenizer returns one index per transcript character, in
\* order: the vocabulary index of a character of the vocabulary, 0 for a
\* character absent from it, and no error for an absent character.
C17_Tokenizer ==
  (pc # "trellis_algo") =>
     /\ Len(tokens) = Len(ts)
     /\ \A i \in 1..Len(ts) :
          IF \E k \in 1..Len(labels) : labels[k] = ts[i]
          THEN tokens[i] \in 0..(Len(labels) - 1) /\ labels[tokens[i] + 1] = ts[i]
          ELSE tokens[i] = 0
     /\ (ts # <<>>) => (err = "none" /\ pc = "init_trellis")

C17_Witness ==
  /\ pc = "init_trellis"
  /\ labels = <<"-", "|", "A", "B">>
  /\ ts = <<"?", "B", "|">>
  /\ tokens = <<0, 3, 1>>

RECURSIVE BlankSum(_)
\* the sum of the blank-class log-probabilities of frames 0..tt-1
BlankSum(tt) ==
  IF tt <= 0 THEN 0 ELSE BlankSum(tt - 1) + emission[tt - 1][blank_id]

\* C18 (as claimed): in the returned trellis, trellis(0,0) = 0,
\* trellis(0,j) = -inf for j > 0, and trellis(t,0) for t > 0 is the sum of
\* the blank log-probabilities of frames 0..t-1.
C18_FirstRowAndColumn ==
  TrellisReturned =>
     /\ trellis[0][0] = 0
     /\ \A jj \in 1..(num_tokens - 1) : trellis[0][jj] = NInf
     /\ \A tt \in 1..(num_frame - 1) : trellis[tt][0] = BlankSum(tt)

\* C19: for t in 0..F-2 and j in 1..N-1 the completed trellis satisfies
\* trellis(t+1,j) = max(trellis(t,j) + emission(t,blank),
\*                      trellis(t,j-1) + emission(t,token[j])).
C19_Recurrence ==
  TrellisReturned =>
     \A tt \in 0..(num_frame - 2) : \A jj \in 1..(num_tokens - 1) :
        LET stay == XAdd(trellis[tt][jj], emission[tt][blank_id])
            advance == XAdd(trellis[tt][jj - 1], emission[tt][tokens[jj + 1]])
        IN  /\ trellis[tt + 1][jj] \in {stay, advance}
            /\ trellis[tt + 1][jj] >= stay
            /\ trellis[tt + 1][jj] >= advance

\* a returned trellis with an entry won strictly by the stay and an entry
\* won strictly by the advance, all scores finite
C19_Witness ==
  /\ TrellisReturned
  /\ num_frame >= 3 /\ num_tokens >= 2
  /\ \E tt \in 0..(num_frame - 2) : \E jj \in 1..(num_tokens - 1) :
       /\ IsFinite(trellis[tt][jj]) /\ IsFinite(trellis[tt][jj - 1])
       /\ trellis[tt][jj] + emission[tt][blank_id]
            > trellis[tt][jj - 1] + emission[tt][tokens[jj + 1]]
       /\ trellis[tt + 1][jj] = trellis[tt][jj] + emission[tt][blank_id]
  /\ \E tt \in 0..(num_frame - 2) : \E jj \in 1..(num_tokens - 1) :
       /\ IsFinite(trellis[tt][jj]) /\ IsFinite(trellis[tt][jj - 1])
       /\ trellis[tt][jj] + emission[tt][blank_id]
            < trellis[tt][jj - 1] + emission[tt][tokens[jj + 1]]
       /\ trellis[tt + 1][jj] = trellis[tt][jj - 1] + emission[tt][tokens[jj + 1]]

\* C20: in the completed trellis every entry (t,j) with j > t is -inf.
C20_UnreachableNegInf ==
  TrellisReturned =>
     \A tt \in 0..(num_frame - 1) : \A jj \in 0..(num_tokens - 1) :
        jj > tt => trellis[tt][jj] = NInf

C20_Witness ==
  /\ TrellisReturned
  /\ num_frame >= 3 /\ num_tokens >= 3
  /\ trellis[0][1] = NInf /\ trellis[0][2] = NInf /\ trellis[1][2] = NInf
  /\ IsFinite(trellis[1][1]) /\ IsFinite(trellis[2][2])

\* ---- what one invocation produces when it runs alone, from its arguments
RECURSIVE SoloRows(_, _)
SoloRows(tr, k) ==
  IF k < Cardinality(DOMAIN emission) - 1
  THEN SoloRows([tr EXCEPT ![k + 1] = NextRow(tr, k)], k + 1) ELSE tr

RECURSIVE SoloWalk(_, _, _, _)
SoloWalk(tr, tt, jj, p) ==
  IF jj > 0
  THEN LET stayed == XAdd(tr[tt - 1][jj], emission[tt - 1][blank_id])
           changed == XAdd(tr[tt - 1][jj - 1], emission[tt - 1][Tok(jj)])
           jn == IF changed > stayed THEN jj - 1 ELSE jj
           pr == IF changed > stayed THEN emission[tt - 1][Tok(jj)]
                 ELSE emission[tt - 1][blank_id]
       IN  SoloWalk(tr, tt - 1, jn, Append(p, Point(jn, tt - 1, Exp(pr))))
  ELSE IF tt > 0
  THEN SoloWalk(tr, tt - 1, jj,
                Append(p, Point(jj, tt - 1, Exp(emission[tt - 1][blank_id]))))
  ELSE Reverse(p)

RECURSIVE SoloMerge(_, _, _)
SoloMerge(p, a, segs) ==
  IF a < Len(p)
  THEN LET b == RunEnd(p, a + 1, a + 1) - 1 IN
       SoloMerge(p, b, IF p[a + 1].token_index < Len(ts)
                       THEN Append(segs, RunSegment(p, ts, a, b)) ELSE segs)
  ELSE segs

RECURSIVE SoloWordsFrom(_, _, _, _)
SoloWordsFrom(segs, a, b, ws) ==
  IF a < Len(segs)
  THEN IF b >= Len(segs) \/ segs[b + 1].label = "|"
       THEN SoloWordsFrom(segs, b + 1, b + 1,
              IF a # b THEN Append(ws, WordSegment(segs, a, b)) ELSE ws)
       ELSE SoloWordsFrom(segs, a, b + 1, ws)
  ELSE ws

SoloTokens == TokensOf(ts)
SoloTrellis == SoloRows(InitialTrellis, 0)
SoloPath ==
  SoloWalk(SoloTrellis, Cardinality(DOMAIN emission) - 1, Len(SoloTokens) - 1,
           <<Point(Len(SoloTokens) - 1, Cardinality(DOMAIN emission) - 1,
                   Exp(emission[Cardinality(DOMAIN emission) - 1][blank_id]))>>)
SoloSegments == SoloMerge(SoloPath, 0, <<>>)
SoloWords == SoloWordsFrom(SoloSegments, 0, 0, <<>>)

C21_WalkNeverFails ==
  Feasible =>
     /\ ~(pc = "error" /\ err = "AssertionError")
     /\ (pc = "bt_loop") => (j <= t /\ ~(t = 0 /\ j > 0))
     /\ PathReturned => j = 0

\* the walk of the tight case N = F >= 3 ended at j = 0, t = 0
C21_Witness ==
  /\ pc = "merge_repeats"
  /\ num_tokens = num_frame /\ num_frame >= 3
  /\ j = 0 /\ t = 0
  /\ Len(path) = num_frame

\* the path points (1-based positions) whose frame lies in [start, end)
PointsIn(p, start, end) ==
  {k \in 1..Len(p) : start <= p[k].time_index /\ p[k].time_index < end}

\* C22: merge_repeats emits one segment per maximal in-range run of
\* consecutive path points with equal token_index, in chronological order,
\* labelled transcript[token_index], from the frame of the run's first
\* point to one past the frame of its last; a segment never covers points
\* of two runs (no merge) and never stops short of its run (no split).
C22_OneSegmentPerRun ==
  (pc = "segments_done") =>
     /\ Len(segments) = Cardinality(InRangeRuns(path))
     /\ \A k \in 1..Len(segments) :
          \E r \in InRangeRuns(path) :
             /\ RankIn(InRangeRuns(path), r) = k
             /\ segments[k].label = ts[path[r[1]].token_index + 1]
             /\ segments[k].start = path[r[1]].time_index
             /\ segments[k].end = path[r[2]].time_index + 1
             /\ PointsIn(path, segments[k].start, segments[k].end) = r[1]..r[2]
     /\ \A k \in 1..(Len(segments) - 1) :
          /\ segments[k].start < segments[k].end
          /\ segments[k].end <= segments[k + 1].start
     /\ \A k \in 1..Len(segments) :
          LET inside == PointsIn(path, segments[k].start, segments[k].end) IN
          /\ inside # {}
          /\ \A a, b \in inside : path[a].token_index = path[b].token_index
          /\ \A a \in inside : \A b \in 1..Len(path) :
               (b \notin inside /\ (b = a + 1 \/ b = a - 1)) =>
                  path[b].token_index # path[a].token_index

\* a run of two points followed by a run of one: two segments, [0,2), [2,3)
C22_Witness ==
  /\ pc = "segments_done"
  /\ Len(path) = 3 /\ Len(ts) >= 2
  /\ path[1].token_index = 0 /\ path[2].token_index = 0
  /\ path[3].token_index = 1
  /\ Len(segments) = 2
  /\ segments[1].start = 0 /\ segments[1].end = 2
  /\ segments[2].start = 2 /\ segments[2].end = 3

\* C23: for 1 <= N <= F the pipeline yields exactly N character segments,
\* the i-th labelled transcript[i], each of length >= 1, tiling the frames:
\* the first starts at 0, each ends where the next starts, the last ends
\* at F.
C23_SegmentsTileFrames ==
  (pc = "segments_done" /\ Feasible) =>
     /\ Len(segments) = Len(ts)
     /\ \A k \in 1..Len(segments) :
          /\ segments[k].label = ts[k]
          /\ segments[k].end - segments[k].start >= 1
     /\ segments[1].start = 0
     /\ \A k \in 1..(Len(segments) - 1) :
          segments[k].end = segments[k + 1].start
     /\ segments[Len(segments)].end = num_frame

\* two tokens on three frames, the first token kept for two frames
C23_Witness ==
  /\ pc = "segments_done"
  /\ Len(ts) = 2 /\ num_frame = 3
  /\ Len(segments) = 2
  /\ segments[1].start = 0 /\ segments[1].end = 2
  /\ segments[2].start = 2 /\ segments[2].end = 3

\* C24: for 1 <= N <= F the words returned by merge_words are
\* chronological and do not overlap: every word has start < end, and the
\* end of a word is strictly below the start of the next one (a separator
\* frame lies between them); merge_words does not fail.
C24_WordsApart ==
  /\ (pc \in {"merge_words", "words_done"} /\ Feasible) => err = "none"
  /\ (pc = "error" /\ Feasible) => err # "ZeroDivisionError"
  /\ (pc = "words_done" /\ Feasible) =>
       /\ \A k \in 1..Len(words) : words[k].start < words[k].end
       /\ \A k \in 1..(Len(words) - 1) : words[k].end < words[k + 1].start

\* two one-frame words around a one-frame separator
C24_Witness ==
  /\ pc = "words_done"
  /\ num_frame = 3
  /\ Len(words) = 2
  /\ words[1].start = 0 /\ words[1].end = 1
  /\ words[2].start = 2 /\ words[2].end = 3

\* the number a string of decimal digits stands for (-1: not all digits)
DigitValue(c) ==
  IF \E d \in 0..9 : Digit(d) = c THEN CHOOSE d \in 0..9 : Digit(d) = c ELSE -1

RECURSIVE Number(_)
Number(s) ==
  IF Len(s) = 0 THEN -1
  ELSE IF DigitValue(SubSeq(s, Len(s), Len(s))) = -1 THEN -1
  ELSE IF Len(s) = 1 THEN DigitValue(s)
  ELSE IF Number(SubSeq(s, 1, Len(s) - 1)) = -1 THEN -1
  ELSE 10 * Number(SubSeq(s, 1, Len(s) - 1)) + DigitValue(SubSeq(s, Len(s), Len(s)))

\* the fields of a stamp H..H:MM:SS.CC, read from its right end
StampShaped(s) ==
  /\ Len(s) >= 10
  /\ SubSeq(s, Len(s) - 2, Len(s) - 2) = "."
  /\ SubSeq(s, Len(s) - 5, Len(s) - 5) = ":"
  /\ SubSeq(s, Len(s) - 8, Len(s) - 8) = ":"
StampHours(s) == Number(SubSeq(s, 1, Len(s) - 9))
StampMinutes(s) == Number(SubSeq(s, Len(s) - 7, Len(s) - 6))
StampSeconds(s) == Number(SubSeq(s, Len(s) - 4, Len(s) - 3))
StampCs(s) == Number(SubSeq(s, Len(s) - 1, Len(s)))
\* the time a stamp prints, in hundredths of a second
StampValue(s) ==
  ((StampHours(s) * 60 + StampMinutes(s)) * 60 + StampSeconds(s)) * 100
    + StampCs(s)

StampWellFormed(s, ms) ==
  /\ StampShaped(s)
  /\ StampHours(s) >= 0
  /\ StampMinutes(s) \in 0..59
  /\ StampSeconds(s) \in 0..59
  /\ StampCs(s) \in 0..99
  /\ StampValue(s) * 10 <= ms

\* C25 (as claimed): for every non-negative time both format_time
\* implementations print a well-formed stamp, minutes in 00..59, seconds
\* below 60 (never 60.00), and the printed time never exceeds the input.
C25_BothWellFormed ==
  (pc \in {"time_done", "subtitles_time_done"}) =>
     StampWellFormed(stamp, time_ms)

\* subtitles.format_time alone prints such a stamp
SubtitlesStampWellFormed ==
  (pc = "subtitles_time_done") => StampWellFormed(stamp, time_ms)

\* the scripts that finished with a failure
FailedSteps == {i \in 1..Len(mn.finished) : ~mn.finished[i][2]}

\* C26: main starts the scripts strictly in the order scraper, tts,
\* subtitles, BGM, video, each only after every earlier one has finished
\* successfully; once a step has failed no later step is started and main
\* returns False at once; main returns True only if all five succeeded.
C26_PipelineOrder ==
  /\ [](pc \in {"main", "run_script", "main_done", "main_raised"} =>
         /\ Len(mn.started) <= Len(Pipeline)
         /\ \A i \in 1..Len(mn.started) : mn.started[i] = Pipeline[i]
         /\ Len(mn.finished) <= Len(mn.started)
         /\ Len(mn.started) <= Len(mn.finished) + 1
         /\ \A i \in 1..Len(mn.finished) : mn.finished[i][1] = mn.started[i]
         /\ \A i \in 1..Len(mn.started) : \A q \in 1..(i - 1) :
              mn.finished[q] = <<Pipeline[q], TRUE>>
         /\ \A i \in FailedSteps :
              /\ Len(mn.started) = i
              /\ pc = "main_done"
              /\ mn.result = "False"
         /\ (mn.result = "True") =>
              /\ Len(mn.finished) = Len(Pipeline)
              /\ \A i \in 1..Len(Pipeline) : mn.finished[i] = <<Pipeline[i], TRUE>>
         /\ (pc = "main_done") => mn.result \in {"True", "False"}
         /\ (pc = "main_raised") =>
              (mn.result = "none" /\ Len(mn.started) = Len(mn.finished) + 1))
  /\ [][(pc = "run_script" /\ mn.scripts[Pipeline[mn.k + 1]] \in Caught) =>
          (pc' = "main_done" /\ mn'.result = "False" /\ mn'.started = mn.started)]_vars
  /\ [][(pc \in {"main_done", "main_raised"}) => (mn'.started = mn.started)]_vars

\* the third step failed after two successes: main returned False
C26_Witness ==
  /\ pc = "main_done"
  /\ mn.result = "False"
  /\ mn.started = <<"scraper", "tts", "subtitles">>
  /\ mn.finished = <<<<"scraper", TRUE>>, <<"tts", TRUE>>, <<"subtitles", FALSE>>>>

\* all five steps succeeded: main returned True
C26_AllSucceeded ==
  /\ pc = "main_done"
  /\ mn.result = "True"
  /\ Len(mn.finished) = 5

\* C30 (as claimed): split_into_bark_chunks returns the same sequence of
\* chunks as _split_text_into_chunks on the same text and max_chunk_size.
C30_SameChunks ==
  (pc = "tts_done") => sp.bark.chunks = sp.tts.chunks

\* C29: split_into_bark_chunks terminates for every text and every
\* max_chunk_size >= 1: every iteration of its loop moves current_pos
\* strictly forward, never past the end of the text, and the call returns.
C29_SplitTerminates ==
  /\ [][(pc = "bark_loop" /\ pc' = "bark_loop") =>
          /\ sp'.bark.current_pos > sp.bark.current_pos
          /\ sp'.bark.current_pos <= Len(sp.text)]_vars
  /\ <>(pc \in {"bark_done", "tts_loop", "tts_done"})

\* a window that starts with ". " (no sentence end is taken, the chunk
\* ends after the space) and then the last window: the loop is at the end
\* of the text
C29_Witness ==
  /\ pc = "bark_loop"
  /\ sp.text = ".  a"
  /\ sp.max_chunk_size = 2
  /\ sp.bark.current_pos = Len(sp.text)
  /\ sp.bark.chunks = <<".", "a">>

\* the record of the files the loop is done with: one entry per file
HandledUpTo(n) == Len(gs.handled) = n /\ \A i \in 1..n : gs.handled[i].wav_file = gs.wav_files[i]

\* the failures the claim names: no row for the file, or an exception
\* while its cues are computed
Confined == {"no row", "error"}

\* the files written so far are those of the files handled as "written"
AssFilesWritten ==
  DOMAIN gs.files =
    {SplitExtRoot(gs.handled[i].wav_file) \o ".ass" :
       i \in {i \in 1..Len(gs.handled) : gs.handled[i].outcome = "written"}}

C27_NoRowThenWritten ==
  /\ pc = "subtitles_done"
  /\ Len(gs.handled) = 2
  /\ gs.handled[1].outcome = "no row"
  /\ gs.handled[2].outcome = "written"

\* cues that start at 0, each starting where the previous one ends, none
\* ending before it starts
Contiguous(cues) ==
  /\ Len(cues) >= 1 => cues[1].start = <<0, 1>>
  /\ \A n \in 1..(Len(cues) - 1) : cues[n + 1].start = cues[n].end
  /\ \A n \in 1..Len(cues) : RLeq(cues[n].start, cues[n].end)

\* C28: in exact arithmetic the cues emitted for a WAV file are contiguous
\* and ordered: the first starts at 0, each starts where the previous one
\* ends, every cue has end >= start, and once all chunks are done the last
\* cue ends at the audio duration.
C28_CuesContiguous ==
  /\ pc \in {"chunk_loop", "group_loop"} =>
       /\ Contiguous(gs.cues)
       /\ gs.current_time =
            IF gs.cues = <<>> THEN <<0, 1>> ELSE gs.cues[Len(gs.cues)].end
       /\ gs.duration = Rat(gs.fate[WavFile].length_ms, 1000)
       /\ RLeq(gs.current_time, gs.duration)
  /\ (pc = "chunk_loop" /\ ~(gs.c < Len(gs.bark_chunks))) =>
       /\ Len(gs.cues) >= 1
       /\ gs.cues[Len(gs.cues)].end = gs.duration
  /\ pc \in {"wav_loop", "subtitles_done"} =>
       \A i \in 1..Len(gs.handled) :
          (gs.handled[i].outcome = "written") =>
             /\ Contiguous(gs.handled[i].cues)
             /\ Len(gs.handled[i].cues) >= 1
             /\ gs.handled[i].cues[Len(gs.handled[i].cues)].end =
                  Rat(gs.fate[gs.handled[i].wav_file].length_ms, 1000)

\* a text of three chunks, the last of two word groups: four cues over
\* 1.5 seconds, the first ending at 1.5 * 151 / 413
C28_Witness ==
  /\ pc = "subtitles_done"
  /\ \E i \in 1..Len(gs.handled) :
       /\ gs.handled[i].outcome = "written"
       /\ Len(gs.handled[i].cues) = 4
       /\ gs.handled[i].cues[1].end = <<453, 826>>
       /\ gs.handled[i].cues[4].end = <<3, 2>>

====
